---- MODULE Spec2Model ----
(***************************************************************************)
(* A model of prompt.py: the ignore filter (IGNORE_PATTERNS, GitIgnore,    *)
(* should_ignore), the two renderers (build_file_map, build_file_contents) *)
(* and main.                                                               *)
(*                                                                         *)
(* Python str values that the program inspects character by character      *)
(* (paths, glob patterns, media types) are sequences of one-character      *)
(* strings, so that split, basename, relative_to, fnmatch and substring    *)
(* tests are computed rather than assumed.  A text (the content of a file) *)
(* is the sequence of its lines.                                           *)
(***************************************************************************)
EXTENDS Integers, Sequences, FiniteSets, TLC

(***************************************************************************)
(* Bounds of the model.                                                    *)
(***************************************************************************)
\* longest command line (sys.argv[1:]) explored
MaxArgs == 2

(***************************************************************************)
(* Python evaluates an expression once, where it stands, and binds the     *)
(* value.  With(e, F) is F applied to the value of e.                      *)
(***************************************************************************)
With(e, F(_)) == CHOOSE r \in {F(v) : v \in {e}} : TRUE

(***************************************************************************)
(* Characters and strings.                                                 *)
(***************************************************************************)
SEP == "/"

\* The characters of the names in the model, in code-point order: Python
\* compares str values by code point, and sorted() relies on it.
CodePointOrder ==
    << ".", "/", "a", "b", "c", "d", "e", "f", "g", "i", "j", "l", "n",
       "o", "p", "r", "s", "t", "u", "v", "x", "y" >>

Ord(c) == CHOOSE k \in 1..Len(CodePointOrder) : CodePointOrder[k] = c

RECURSIVE StrLess(_, _)
\* a < b on Python str values
StrLess(a, b) ==
    IF a = <<>> THEN b /= <<>>
    ELSE IF b = <<>> THEN FALSE
    ELSE IF Head(a) = Head(b) THEN StrLess(Tail(a), Tail(b))
    ELSE Ord(Head(a)) < Ord(Head(b))

RECURSIVE Insert(_, _)
Insert(x, s) ==
    IF s = <<>> THEN <<x>>
    ELSE IF StrLess(Head(s), x) THEN <<Head(s)>> \o Insert(x, Tail(s))
    ELSE <<x>> \o s

RECURSIVE sorted(_)
\* sorted(names): ascending by code point
sorted(s) ==
    IF s = <<>> THEN <<>>
    ELSE With(sorted(Tail(s)), LAMBDA rest : Insert(Head(s), rest))

RECURSIVE split(_)
\* path.split(os.sep)
split(s) ==
    IF \A k \in 1..Len(s) : s[k] /= SEP THEN <<s>>
    ELSE With(CHOOSE j \in 1..Len(s) : s[j] = SEP /\ \A h \in 1..(j - 1) : s[h] /= SEP,
              LAMBDA k : <<SubSeq(s, 1, k - 1)>>
                         \o With(SubSeq(s, k + 1, Len(s)), LAMBDA rest : split(rest)))

\* os.path.basename(path), Path(path).name
basename(s) == LET parts == split(s) IN parts[Len(parts)]

\* os.path.join(root, name), root_path / name  (name is never absolute)
join(root, name) == root \o <<SEP>> \o name

\* Path(path).relative_to(root).parts : path is root or lies under root
RelParts(path, root) ==
    IF path = root THEN <<>>
    ELSE split(SubSeq(path, Len(root) + 2, Len(path)))

\* str(Path(path).relative_to(root))
relative_to(path, root) ==
    IF path = root THEN <<".">>
    ELSE SubSeq(path, Len(root) + 2, Len(path))

\* Path(path).suffix : from the last dot of the name, unless the name
\* starts with its only dot
suffix(path) ==
    LET n    == basename(path)
        dots == {k \in 2..Len(n) : n[k] = "."}
    IN  IF dots = {} \/ n[Len(n)] = "." THEN <<>>
        ELSE LET k == CHOOSE j \in dots : \A h \in dots : h <= j
             IN  SubSeq(n, k, Len(n))

\* sub in s  (Python substring test)
Contains(s, sub) ==
    \E k \in 0..(Len(s) - Len(sub)) : SubSeq(s, k + 1, k + Len(sub)) = sub

RECURSIVE strip(_)
\* line.strip() for the whitespace the model's lines contain
strip(s) ==
    IF s = <<>> THEN s
    ELSE IF Head(s) = " " THEN strip(Tail(s))
    ELSE IF s[Len(s)] = " " THEN strip(SubSeq(s, 1, Len(s) - 1))
    ELSE s

RECURSIVE fnmatch(_, _)
\* fnmatch.fnmatch(name, pat): * matches any run of characters (the path
\* separator included), ? matches one character, anything else itself.
\* The patterns of the model hold no bracket expression.
fnmatch(name, pat) ==
    IF pat = <<>> THEN name = <<>>
    ELSE IF Head(pat) = "*"
         THEN fnmatch(name, Tail(pat))
              \/ (name /= <<>> /\ fnmatch(Tail(name), pat))
    ELSE IF name = <<>> THEN FALSE
    ELSE (Head(pat) = "?" \/ Head(pat) = Head(name))
         /\ fnmatch(Tail(name), Tail(pat))

(***************************************************************************)
(* IGNORE_PATTERNS                                                         *)
(***************************************************************************)
IGNORE_PATTERNS ==
    { <<".", "D", "S", "_", "S", "t", "o", "r", "e">>,
      <<".", "S", "p", "o", "t", "l", "i", "g", "h", "t", "-", "V", "1", "0", "0">>,
      <<".", "T", "r", "a", "s", "h", "e", "s">>,
      <<".", "f", "s", "e", "v", "e", "n", "t", "s", "d">>,
      <<".", "A", "p", "p", "l", "e", "D", "o", "u", "b", "l", "e">>,
      <<"n", "o", "d", "e", "_", "m", "o", "d", "u", "l", "e", "s">>,
      <<"v", "e", "n", "d", "o", "r">>,
      <<".", "g", "i", "t">>,
      <<".", "s", "v", "n">>,
      <<".", "h", "g">>,
      <<"d", "i", "s", "t">>,
      <<"_", "_", "p", "y", "c", "a", "c", "h", "e", "_", "_">>,
      <<".", "p", "y", "c">>,
      <<".", "p", "y", "o">>,
      <<".", "p", "y", "d">>,
      <<".", "c", "a", "c", "h", "e">>,
      <<".", "i", "d", "e", "a">>,
      <<".", "v", "s", "c", "o", "d", "e">>,
      <<".", "p", "y", "t", "e", "s", "t", "_", "c", "a", "c", "h", "e">>,
      <<".", "o">>,
      <<".", "o", "b", "j">>,
      <<".", "s", "o">>,
      <<".", "d", "y", "l", "i", "b">>,
      <<".", "d", "l", "l">>,
      <<".", "e", "x", "e">>,
      <<".", "e", "n", "v">> }

(***************************************************************************)
(* The file system the program runs on.  One project directory p:          *)
(*                                                                         *)
(*   p/.env  p/.gitignore  p/c.json  p/i.png  p/run.log  p/run.txt         *)
(*   p/.git/cfg   p/build/.gitignore   p/build/x.txt   p/build/deep/y.txt  *)
(*   p/lib/b.json   p/lib/x.txt                                            *)
(*                                                                         *)
(* p and p/build have a rules file, p/lib has none.  The lines of p's      *)
(* rules file and the files that cannot be read are inputs (the variables  *)
(* rules, unreadable); the rules file of p/build holds the line y.* .      *)
(* c.json holds valid JSON, b.json does not.                               *)
(***************************************************************************)
P == <<"p">>
P_GIT == <<"p", "/", ".", "g", "i", "t">>
P_BUILD == <<"p", "/", "b", "u", "i", "l", "d">>
P_DEEP == <<"p", "/", "b", "u", "i", "l", "d", "/", "d", "e", "e", "p">>
P_LIB == <<"p", "/", "l", "i", "b">>
GITIGNORE == <<".", "g", "i", "t", "i", "g", "n", "o", "r", "e">>

Dirs == {P, P_GIT, P_BUILD, P_DEEP, P_LIB}

\* os.scandir order, which no caller may rely on: deliberately unsorted
ScanDirs(d) ==
    IF d = P THEN << <<"l", "i", "b">>, <<"b", "u", "i", "l", "d">>, <<".", "g", "i", "t">> >>
    ELSE IF d = P_BUILD THEN << <<"d", "e", "e", "p">> >>
    ELSE <<>>

ScanFiles(d) ==
    IF d = P THEN << <<"r", "u", "n", ".", "t", "x", "t">>, <<"i", ".", "p", "n", "g">>, <<".", "g", "i", "t", "i", "g", "n", "o", "r", "e">>, <<"r", "u", "n", ".", "l", "o", "g">>, <<"c", ".", "j", "s", "o", "n">>, <<".", "e", "n", "v">> >>
    ELSE IF d = P_GIT THEN << <<"c", "f", "g">> >>
    ELSE IF d = P_BUILD THEN << <<"x", ".", "t", "x", "t">>, <<".", "g", "i", "t", "i", "g", "n", "o", "r", "e">> >>
    ELSE IF d = P_DEEP THEN << <<"y", ".", "t", "x", "t">> >>
    ELSE IF d = P_LIB THEN << <<"x", ".", "t", "x", "t">>, <<"b", ".", "j", "s", "o", "n">> >>
    ELSE <<>>

Range(s) == {s[k] : k \in 1..Len(s)}

Files == UNION {{join(d, n) : n \in Range(ScanFiles(d))} : d \in Dirs}

\* Path.is_dir, os.path.exists
is_dir(path) == path \in Dirs
exists(path) == path \in Dirs \cup Files

\* The command-line arguments explored: the project, a subdirectory, two
\* bare files (one of them named by a static fragment) and a missing path.
ArgPaths == { P, P_BUILD, <<"p", "/", "r", "u", "n", ".", "l", "o", "g">>, <<"p", "/", ".", "e", "n", "v">>, <<"n", "o", "p", "e">> }

\* The rules files explored for p, each a sequence of lines: no rule, a
\* glob on the suffix, a directory name (written with a trailing blank),
\* a rule with a leading separator, and files with a comment, a blank line
\* and two rules
RuleFiles ==
    { <<>>,
      << <<"*", ".", "l", "o", "g">> >>,
      << <<"b", "u", "i", "l", "d", " ">> >>,
      << <<"/", "x", ".", "t", "x", "t">> >>,
      << <<"#", "x", ".", "t", "x", "t">>, <<"*", ".", "l", "o", "g">> >>,
      << <<>>, <<"d", "e", "e", "p">> >>,
      << <<"b", "u", "i", "l", "d">>, <<"*", ".", "t", "x", "t">> >> }

\* The files whose read may fail (permission or I/O error)
MayFail == { <<"p", "/", "r", "u", "n", ".", "l", "o", "g">>, <<"p", "/", "c", ".", "j", "s", "o", "n">> }

BoundedSeq(S, n) == UNION {[1..m -> S] : m \in 0..n}

(***************************************************************************)
(* Text of the files: a text is its sequence of lines.                     *)
(***************************************************************************)
BINARY_PLACEHOLDER == << <<"[", "B", "i", "n", "a", "r", "y", " ", "f", "i", "l", "e", "]">> >>

JsonCompact == << <<"{", "\"", "a", "\"", ":", "1", "}">> >>
JsonBroken == << <<"{", "\"", "a", "\"", ":">> >>
JsonIndented == << <<"{">>, <<" ", " ", " ", " ", "\"", "a", "\"", ":", " ", "1">>, <<"}">> >>

VARIABLES
    args,          \* sys.argv[1:]
    rules,         \* the lines of p/.gitignore
    unreadable,    \* the files open() or read() fails on
    pc,            \* where main is
    valid_paths,   \* main's valid_paths
    file_map,      \* main's file_map: the lines build_file_map returned
    file_contents, \* main's file_contents: what build_file_contents returned
    opened,        \* the files get_file_contents opened for reading
    clipboard,     \* the texts handed to pbcopy, in order
    stdout,        \* the lines printed
    exit_code      \* the process's exit status, -1 while it runs

vars == << args, rules, unreadable, pc, valid_paths, file_map,
           file_contents, opened, clipboard, stdout, exit_code >>

\* what f.read() returns for a file that can be read as UTF-8 text
FileText(path) ==
    IF path = join(P, GITIGNORE) THEN rules
    ELSE IF path = join(P_BUILD, GITIGNORE) THEN << <<"y", ".", "*">> >>
    ELSE IF path = <<"p", "/", "c", ".", "j", "s", "o", "n">> THEN JsonCompact
    ELSE IF path = <<"p", "/", "l", "i", "b", "/", "b", ".", "j", "s", "o", "n">> THEN JsonBroken
    ELSE IF path = <<"p", "/", "r", "u", "n", ".", "t", "x", "t">> THEN << <<"h", "i">> >>
    ELSE << basename(path) >>

\* open(path, 'r', encoding='utf-8') followed by read() raises: the path
\* is no file, the PNG is not UTF-8 text, the files of unreadable fail
ReadFails(path) == path \notin Files \/ path \in unreadable \/ path = <<"p", "/", "i", ".", "p", "n", "g">>

(***************************************************************************)
(* class GitIgnore                                                         *)
(***************************************************************************)
IsPatternLine(line) == line /= <<>> /\ Head(line) /= "#"

\* GitIgnore.load: the patterns appended from the rules file; a file that
\* cannot be read leaves the list as it was (empty)
load(gitignore_path) ==
    IF ReadFails(gitignore_path) THEN <<>>
    ELSE LET lines == FileText(gitignore_path)
         IN  SelectSeq([k \in 1..Len(lines) |-> strip(lines[k])], IsPatternLine)

\* the pattern matches() hands to fnmatch
Unanchored(pattern) == IF Head(pattern) = SEP THEN Tail(pattern) ELSE pattern

\* GitIgnore.matches
matches(patterns, path, root) ==
    LET rel_path == relative_to(path, root)
    IN  \E k \in 1..Len(patterns) :
            \/ fnmatch(rel_path, Unanchored(patterns[k]))
            \/ fnmatch(basename(path), Unanchored(patterns[k]))

\* gitignore = GitIgnore(); load(path / '.gitignore') if it exists
LoadedPatterns(path) ==
    IF exists(join(path, GITIGNORE)) THEN load(join(path, GITIGNORE)) ELSE <<>>

(***************************************************************************)
(* gitignore_cache: a dict from str(path) to bool                          *)
(***************************************************************************)
EmptyCache == [x \in {} |-> FALSE]

CachePut(cache, key, value) ==
    [x \in DOMAIN cache \cup {key} |-> IF x = key THEN value ELSE cache[x]]

\* gitignore_cache.get(key, False)
CacheGet(cache, key) == IF key \in DOMAIN cache THEN cache[key] ELSE FALSE

\* the static check of should_ignore
StaticIgnored(path) == \E seg \in Range(split(path)) : seg \in IGNORE_PATTERNS

\* should_ignore(path, gitignore_cache); a missing cache (None) and an
\* empty one behave alike
should_ignore(path, gitignore_cache) ==
    IF StaticIgnored(path) THEN TRUE
    ELSE IF DOMAIN gitignore_cache /= {} /\ path \in DOMAIN gitignore_cache
         THEN gitignore_cache[path]
    ELSE FALSE

\* the decision the walks record for one entry
Decision(patterns, full_path, path) ==
    IF patterns /= <<>> /\ matches(patterns, full_path, path) THEN TRUE
    ELSE should_ignore(full_path, EmptyCache)

RECURSIVE CacheItems(_, _, _, _, _)
\* "Cache gitignore matches for this directory"
CacheItems(cache, patterns, path, root, items) ==
    IF items = <<>> THEN cache
    ELSE With(join(root, Head(items)), LAMBDA full_path :
         With(CachePut(cache, full_path, Decision(patterns, full_path, path)),
              LAMBDA cache1 : CacheItems(cache1, patterns, path, root, Tail(items))))

(***************************************************************************)
(* get_file_contents                                                       *)
(***************************************************************************)
\* mimetypes.guess_type(name)[0] for the extensions of the model; <<>> is None
guess_type(path) ==
    LET ext == suffix(path)
    IN  IF ext = <<".", "p", "n", "g">> THEN <<"i", "m", "a", "g", "e", "/", "p", "n", "g">>
        ELSE IF ext = <<".", "j", "s", "o", "n">> THEN <<"a", "p", "p", "l", "i", "c", "a", "t", "i", "o", "n", "/", "j", "s", "o", "n">>
        ELSE IF ext = <<".", "t", "x", "t">> THEN <<"t", "e", "x", "t", "/", "p", "l", "a", "i", "n">>
        ELSE <<>>

is_binary(path) ==
    LET file_type == guess_type(path)
    IN  /\ file_type /= <<>>
        /\ \/ Contains(file_type, <<"i", "m", "a", "g", "e">>)
           \/ Contains(file_type, <<"b", "i", "n", "a", "r", "y">>)
           \/ Contains(file_type, <<"p", "d", "f">>)

\* json.loads(content) succeeds, and json.dumps(parsed, indent=4)
JsonParses(content) == content = JsonCompact
JsonDumpsIndent4(content) == JsonIndented

\* The text read from a file that opened: re-serialised when the suffix is
\* .json and the content parses, raw otherwise
ReadText(file_path) ==
    LET content == FileText(file_path)
    IN  IF suffix(file_path) = <<".", "j", "s", "o", "n">> /\ JsonParses(content)
        THEN JsonDumpsIndent4(content)
        ELSE content

\* the try block without its except clause: a failed read leaves the function
ReadOrRaise(file_path) ==
    IF ReadFails(file_path) THEN [ret |-> "raise", text |-> <<>>, opens |-> TRUE]
    ELSE [ret |-> "str", text |-> ReadText(file_path), opens |-> TRUE]

\* What the try block of get_file_contents comes to: the text, or the
\* empty text when open or read raised
ReadOrEmpty(file_path) ==
    IF ReadFails(file_path) THEN [ret |-> "str", text |-> <<>>, opens |-> TRUE]
    ELSE [ret |-> "str", text |-> ReadText(file_path), opens |-> TRUE]

\* get_file_contents without the media type test
get_file_contents_NoBinaryCheck(file_path, gitignore_cache) ==
    IF should_ignore(file_path, gitignore_cache)
    THEN [ret |-> "None", text |-> <<>>, opens |-> FALSE]
    ELSE ReadOrEmpty(file_path)

\* get_file_contents(file_path, gitignore_cache).  ret is "None", "str", or
\* "raise" for an exception that leaves the function; opens tells whether
\* open() was called.
get_file_contents(file_path, gitignore_cache) ==
    IF should_ignore(file_path, gitignore_cache)
    THEN [ret |-> "None", text |-> <<>>, opens |-> FALSE]
    ELSE IF is_binary(file_path)
    THEN [ret |-> "str", text |-> BINARY_PLACEHOLDER, opens |-> FALSE]
    ELSE ReadOrEmpty(file_path)

(***************************************************************************)
(* build_file_map                                                          *)
(*                                                                         *)
(* A line of the map is a record: the markers <file_map> and </file_map>   *)
(* ("open", "close"), a header line (the input path) and an entry line,    *)
(* which is indent spaces, the branch marker and a name.  The fields of    *)
(* and input of an entry line are not part of its text: they record the    *)
(* path the line was written for and the index of the input path whose     *)
(* iteration wrote it.                                                     *)
(***************************************************************************)
\* the width of the indentation string "    "
IndentWidth == 4

\* indent = "    " * level
Indent(level) == IndentWidth * level

\* level = len(rel_root.parts)
Level(root, path) == Len(RelParts(root, path))

EntryLine(level, name, full_path, i) ==
    [kind |-> "entry", indent |-> Indent(level), name |-> name,
     of |-> full_path, input |-> i]

RECURSIVE MapEntries(_, _, _, _, _)
\* for name in names: append the entry line unless the cache says ignored
MapEntries(names, cache, root, level, i) ==
    IF names = <<>> THEN <<>>
    ELSE With(join(root, Head(names)), LAMBDA full_path :
         With(MapEntries(Tail(names), cache, root, level, i), LAMBDA rest :
              IF ~CacheGet(cache, full_path)
              THEN <<EntryLine(level, Head(names), full_path, i)>> \o rest
              ELSE rest))

\* the entries written in the order the file system gave them
ListingOrder_Unsorted(names) == names

\* the order in which one directory's entries are written
ListingOrder(names) == sorted(names)

\* the entry lines of one directory: its subdirectories, then its files
Listing(cache, path, root, i) ==
    With(Level(root, path), LAMBDA level :
        With(ListingOrder(ScanDirs(root)), LAMBDA dirs :
             MapEntries(dirs, cache, root, level, i))
        \o With(ListingOrder(ScanFiles(root)), LAMBDA files :
             MapEntries(files, cache, root, level, i)))

RECURSIVE MapWalk(_, _, _, _, _)
RECURSIVE MapWalkDirs(_, _, _, _, _, _)
\* One iteration of "for root, dirs, files in os.walk(path, topdown=True)"
\* and the iterations for the directories below root.  st is the pair of
\* map_lines and gitignore_cache.
MapWalk(st, patterns, path, root, i) ==
    IF should_ignore(root, st.cache) THEN st
    ELSE With(CacheItems(st.cache, patterns, path, root, ScanDirs(root) \o ScanFiles(root)),
              LAMBDA cache1 :
         With([lines |-> st.lines \o Listing(cache1, path, root, i), cache |-> cache1],
              LAMBDA st1 : MapWalkDirs(st1, patterns, path, root, ScanDirs(root), i)))

\* os.walk descends into the directories of dirs, in the order of dirs
MapWalkDirs(st, patterns, path, root, dirs, i) ==
    IF dirs = <<>> THEN st
    ELSE With(MapWalk(st, patterns, path, join(root, Head(dirs)), i), LAMBDA st1 :
              MapWalkDirs(st1, patterns, path, root, Tail(dirs), i))

\* the line of a bare file input
BareFileLines(path, i) == <<EntryLine(0, basename(path), path, i)>>

\* the body of "for path in paths" for paths[i]
MapPath(st, path, i) ==
    With([lines |-> Append(st.lines, [kind |-> "header", text |-> path, input |-> i]),
          cache |-> st.cache],
         LAMBDA st1 :
            IF is_dir(path)
            THEN With(LoadedPatterns(path), LAMBDA patterns :
                      MapWalk(st1, patterns, path, path, i))
            ELSE [lines |-> st1.lines \o BareFileLines(path, i), cache |-> st1.cache])

RECURSIVE MapPaths(_, _, _)
MapPaths(st, paths, i) ==
    IF i > Len(paths) THEN st
    ELSE With(MapPath(st, paths[i], i), LAMBDA st1 : MapPaths(st1, paths, i + 1))

build_file_map(paths) ==
    Append(MapPaths([lines |-> <<[kind |-> "open"]>>, cache |-> EmptyCache],
                    paths, 1).lines,
           [kind |-> "close"])

(***************************************************************************)
(* build_file_contents                                                     *)
(*                                                                         *)
(* content_lines holds the marker <file_contents> ("open"), one block per  *)
(* file (the "File:" header with the relative path rel, and the fenced     *)
(* text) and the marker </file_contents> ("close").  The fields of and     *)
(* input are as in the map.  st also carries the files opened so far and   *)
(* whether an exception is unwinding the function.                         *)
(***************************************************************************)
Block(rel_path, content, full_path, i) ==
    [kind |-> "file", rel |-> rel_path, content |-> content,
     of |-> full_path, input |-> i]

\* content = get_file_contents(file_path, cache); append a block unless None
EmitFile(st, file_path, rel_path, i) ==
    With(get_file_contents(file_path, st.cache), LAMBDA r :
    With(IF r.opens THEN st.opened \cup {file_path} ELSE st.opened, LAMBDA o :
        IF r.ret = "raise"
        THEN [st EXCEPT !.opened = o, !.raised = TRUE]
        ELSE IF r.ret = "None"
        THEN [st EXCEPT !.opened = o]
        ELSE [st EXCEPT !.opened = o,
                        !.lines = Append(@, Block(rel_path, r.text, file_path, i))]))

RECURSIVE ContentFiles(_, _, _, _, _)
\* for file_name in sorted(files): ...
ContentFiles(st, names, path, root, i) ==
    IF names = <<>> \/ st.raised THEN st
    ELSE With(join(root, Head(names)), LAMBDA file_path :
         With(IF ~CacheGet(st.cache, file_path)
              THEN EmitFile(st, file_path, relative_to(file_path, path), i)
              ELSE st,
              LAMBDA st1 : ContentFiles(st1, Tail(names), path, root, i)))

RECURSIVE ContentsWalk(_, _, _, _, _)
RECURSIVE ContentsWalkDirs(_, _, _, _, _, _)
\* One iteration of "for root, _, files in os.walk(path)" and the
\* iterations for the directories below root.
ContentsWalk(st, patterns, path, root, i) ==
    IF st.raised THEN st
    ELSE With(IF should_ignore(root, st.cache) THEN st
              ELSE With(CacheItems(st.cache, patterns, path, root, ScanFiles(root)),
                        LAMBDA cache1 :
                   With(ListingOrder(ScanFiles(root)), LAMBDA files :
                        ContentFiles([st EXCEPT !.cache = cache1], files, path, root, i))),
              LAMBDA st1 : ContentsWalkDirs(st1, patterns, path, root, ScanDirs(root), i))

ContentsWalkDirs(st, patterns, path, root, dirs, i) ==
    IF dirs = <<>> THEN st
    ELSE With(ContentsWalk(st, patterns, path, join(root, Head(dirs)), i), LAMBDA st1 :
              ContentsWalkDirs(st1, patterns, path, root, Tail(dirs), i))

\* the body of "for path in paths" for paths[i]
ContentsPath(st, path, i) ==
    IF is_dir(path)
    THEN With(LoadedPatterns(path), LAMBDA patterns :
              ContentsWalk(st, patterns, path, path, i))
    ELSE EmitFile(st, path, basename(path), i)

RECURSIVE ContentsPaths(_, _, _)
ContentsPaths(st, paths, i) ==
    IF i > Len(paths) \/ st.raised THEN st
    ELSE With(ContentsPath(st, paths[i], i), LAMBDA st1 :
              ContentsPaths(st1, paths, i + 1))

\* build_file_contents(paths): the lines returned, the files opened, and
\* whether the call ended by an exception (no value is returned then)
build_file_contents(paths) ==
    With(ContentsPaths([lines |-> <<[kind |-> "open"]>>, cache |-> EmptyCache,
                        opened |-> {}, raised |-> FALSE], paths, 1),
         LAMBDA st :
            [lines  |-> IF st.raised THEN st.lines
                        ELSE Append(st.lines, [kind |-> "close"]),
             opened |-> st.opened,
             raised |-> st.raised])

(***************************************************************************)
(* main                                                                    *)
(***************************************************************************)
\* valid_paths without the existence test
ValidPaths_Unfiltered(paths) == paths

\* valid_paths = [p for p in paths if os.path.exists(p)]
ValidPaths(paths) == SelectSeq(paths, exists)

\* prompt = f"{file_map}\n{file_contents}"
Prompt(map_text, contents_text) == map_text \o <<[kind |-> "blank"]>> \o contents_text

Init ==
    /\ args \in BoundedSeq(ArgPaths, MaxArgs)
    /\ rules \in RuleFiles
    /\ unreadable \in SUBSET MayFail
    /\ pc = "main"
    /\ valid_paths = <<>>
    /\ file_map = <<>>
    /\ file_contents = <<>>
    /\ opened = {}
    /\ clipboard = <<>>
    /\ stdout = <<>>
    /\ exit_code = -1

\* if len(sys.argv) < 2: print(...); sys.exit(1)
MainNoArgs ==
    /\ pc = "main"
    /\ args = <<>>
    /\ stdout' = Append(stdout, "Please provide at least one file or folder path")
    /\ exit_code' = 1
    /\ pc' = "exited"
    /\ UNCHANGED << args, rules, unreadable, valid_paths, file_map,
                    file_contents, opened, clipboard >>

\* if not valid_paths: print(...); sys.exit(1)
MainNoValidPaths ==
    /\ pc = "main"
    /\ args /= <<>>
    /\ ValidPaths(args) = <<>>
    /\ valid_paths' = ValidPaths(args)
    /\ stdout' = Append(stdout, "No valid paths provided")
    /\ exit_code' = 1
    /\ pc' = "exited"
    /\ UNCHANGED << args, rules, unreadable, file_map, file_contents,
                    opened, clipboard >>

\* at least one path exists: go on to build the sections
MainValidPaths ==
    /\ pc = "main"
    /\ args /= <<>>
    /\ ValidPaths(args) /= <<>>
    /\ valid_paths' = ValidPaths(args)
    /\ pc' = "build_file_map"
    /\ UNCHANGED << args, rules, unreadable, file_map, file_contents,
                    opened, clipboard, stdout, exit_code >>

\* file_map = build_file_map(valid_paths)
BuildFileMap ==
    /\ pc = "build_file_map"
    /\ file_map' = build_file_map(valid_paths)
    /\ pc' = "build_file_contents"
    /\ UNCHANGED << args, rules, unreadable, valid_paths, file_contents,
                    opened, clipboard, stdout, exit_code >>

\* file_contents = build_file_contents(valid_paths); an exception leaving
\* the call ends the process with a traceback and status 1
BuildFileContents ==
    /\ pc = "build_file_contents"
    /\ \E r \in {build_file_contents(valid_paths)} :
           /\ file_contents' = r.lines
           /\ opened' = r.opened
           /\ pc' = IF r.raised THEN "exited" ELSE "copy_to_clipboard"
           /\ exit_code' = IF r.raised THEN 1 ELSE exit_code
    /\ UNCHANGED << args, rules, unreadable, valid_paths, file_map,
                    clipboard, stdout >>

\* copy_to_clipboard(prompt): the text is piped to pbcopy
CopyToClipboard ==
    /\ pc = "copy_to_clipboard"
    /\ clipboard' = Append(clipboard, Prompt(file_map, file_contents))
    /\ pc' = "print"
    /\ UNCHANGED << args, rules, unreadable, valid_paths, file_map,
                    file_contents, opened, stdout, exit_code >>

\* print("Prompt copied to clipboard"), and main returns
PrintConfirmation ==
    /\ pc = "print"
    /\ stdout' = Append(stdout, "Prompt copied to clipboard")
    /\ exit_code' = 0
    /\ pc' = "exited"
    /\ UNCHANGED << args, rules, unreadable, valid_paths, file_map,
                    file_contents, opened, clipboard >>

Next ==
    \/ MainNoArgs
    \/ MainNoValidPaths
    \/ MainValidPaths
    \/ BuildFileMap
    \/ BuildFileContents
    \/ CopyToClipboard
    \/ PrintConfirmation

Spec == Init /\ [][Next]_vars

(***************************************************************************)
(* Vocabulary of the properties.  None of it is used by the actions.       *)
(***************************************************************************)
Entries == Dirs \cup Files

\* path lies strictly below the directory root
Under(path, root) ==
    /\ Len(path) > Len(root) + 1
    /\ SubSeq(path, 1, Len(root)) = root
    /\ path[Len(root) + 1] = SEP

\* the directories strictly between root and path
Between(root, path) == {d \in Dirs : Under(d, root) /\ Under(path, d)}

\* the directory that holds path
Parent(path) == SubSeq(path, 1, Len(path) - Len(basename(path)) - 1)

MapBuilt == file_map /= <<>>
ContentsBuilt == file_contents /= <<>>

\* the indexes of the directory inputs that have a rules file
RuledInputs ==
    {i \in 1..Len(valid_paths) :
        is_dir(valid_paths[i]) /\ exists(join(valid_paths[i], GITIGNORE))}

HasMapEntry(i, path) ==
    \E k \in 1..Len(file_map) :
        /\ file_map[k].kind = "entry"
        /\ file_map[k].input = i
        /\ file_map[k].of = path

HasBlock(i, path) ==
    \E k \in 1..Len(file_contents) :
        /\ file_contents[k].kind = "file"
        /\ file_contents[k].input = i
        /\ file_contents[k].of = path

\* a glob rule of root's rules file matches path: by its root-relative form
\* or by its base name, a leading separator of the rule set aside
GlobAmong(pats, root, path) ==
    \E k \in 1..Len(pats) :
        LET pat == IF Head(pats[k]) = SEP THEN Tail(pats[k]) ELSE pats[k]
        IN  \/ fnmatch(SubSeq(path, Len(root) + 2, Len(path)), pat)
            \/ fnmatch(basename(path), pat)

GlobMatches(root, path) == GlobAmong(LoadedPatterns(root), root, path)

\* a segment of path is a static ignore fragment
HasStaticSegment(path) == \E k \in 1..Len(split(path)) : split(path)[k] \in IGNORE_PATTERNS

(***************************************************************************)
(* C1                                                                      *)
(***************************************************************************)
\* The first half of C1: an entry below a directory input with a rules file whose
\* root-relative path or base name matches a loaded glob has no entry line
\* in the map and no content block.
C1_MatchedExcluded ==
    \A i \in RuledInputs :
        LET pats == LoadedPatterns(valid_paths[i])
        IN  \A path \in Entries :
                (Under(path, valid_paths[i]) /\ GlobAmong(pats, valid_paths[i], path))
                    => ~HasMapEntry(i, path) /\ ~HasBlock(i, path)

\* C1: every entry enumerated below a directory input with a rules file
\* that matches a loaded glob is in neither section, and every one that
\* matches no glob and has no static fragment among its segments is in the
\* map and, when a file, in the contents.  (The walk of the contents lists
\* every directory below the root that has no static fragment, so every
\* entry free of static fragments is enumerated.)
C1_GlobDecidesBothSections ==
    /\ C1_MatchedExcluded
    /\ \A i \in RuledInputs : \A path \in Entries :
        ( /\ Under(path, valid_paths[i])
          /\ ~GlobMatches(valid_paths[i], path)
          /\ ~HasStaticSegment(path) )
            => /\ MapBuilt => HasMapEntry(i, path)
               /\ (ContentsBuilt /\ path \in Files) => HasBlock(i, path)

(***************************************************************************)
(* C2                                                                      *)
(***************************************************************************)
\* C2: no entry line of the map and no content block is written for a path
\* one of whose segments is a static ignore fragment, whatever the inputs.
C2_StaticExcluded ==
    /\ \A k \in 1..Len(file_map) :
        file_map[k].kind = "entry" => ~HasStaticSegment(file_map[k].of)
    /\ \A k \in 1..Len(file_contents) :
        file_contents[k].kind = "file" => ~HasStaticSegment(file_contents[k].of)

(***************************************************************************)
(* C3                                                                      *)
(***************************************************************************)
\* a directory between the input root and path is excluded, by a static
\* fragment or by a glob of the root's rules file
UnderExcludedDir(root, path) ==
    \E d \in Between(root, path) : HasStaticSegment(d) \/ GlobMatches(root, d)

\* C3: the contents hold no block for a file below an excluded directory.
C3_ContentsPruned ==
    \A k \in 1..Len(file_contents) :
        (file_contents[k].kind = "file" /\ is_dir(valid_paths[file_contents[k].input]))
            => ~UnderExcludedDir(valid_paths[file_contents[k].input], file_contents[k].of)

(***************************************************************************)
(* C4                                                                      *)
(***************************************************************************)
IsEntry(k) == file_map[k].kind = "entry"

\* the depth of an entry line's path in the tree of its input, the header
\* being at depth 0: 1 for the entries of the root and for a bare file
DepthInTree(line) ==
    IF line.of = valid_paths[line.input] THEN 1
    ELSE Len(split(SubSeq(line.of, Len(valid_paths[line.input]) + 2, Len(line.of))))

\* C4, the order: among the entry lines of one directory, the lines of the
\* subdirectories come first, and directories and files are each in
\* ascending order of name.
C4_Ordered ==
    \A k, l \in 1..Len(file_map) :
        ( /\ k < l /\ IsEntry(k) /\ IsEntry(l)
          /\ file_map[k].input = file_map[l].input
          /\ is_dir(valid_paths[file_map[k].input])
          /\ Parent(file_map[k].of) = Parent(file_map[l].of) )
            => \/ is_dir(file_map[k].of) /\ ~is_dir(file_map[l].of)
               \/ /\ is_dir(file_map[k].of) = is_dir(file_map[l].of)
                  /\ StrLess(file_map[k].name, file_map[l].name)

RECURSIVE ExistingArgs(_)
ExistingArgs(a) ==
    IF a = <<>> THEN <<>>
    ELSE IF Head(a) \in Entries THEN <<Head(a)>> \o ExistingArgs(Tail(a))
    ELSE ExistingArgs(Tail(a))

\* the header lines of the map, in order
RECURSIVE Headers(_)
Headers(lines) ==
    IF lines = <<>> THEN <<>>
    ELSE IF Head(lines).kind = "header" THEN <<Head(lines).text>> \o Headers(Tail(lines))
    ELSE Headers(Tail(lines))

Confirmed == \E k \in 1..Len(stdout) : stdout[k] = "Prompt copied to clipboard"

\* C5: with no argument, or none naming an existing path, the run ends with
\* status 1, no section built and no clipboard write; otherwise there is
\* one clipboard write at most, made after the map and the contents were
\* built from the existing paths in argument order and holding both, the
\* confirmation is printed only after it, and the run ends with status 0
\* having made it.
C5_ClipboardIffValidPath ==
    /\ Len(clipboard) <= 1
    /\ ExistingArgs(args) = <<>> =>
          /\ clipboard = <<>> /\ ~MapBuilt /\ ~ContentsBuilt /\ ~Confirmed
          /\ pc \in {"main", "exited"}
          /\ pc = "exited" => exit_code = 1
    /\ ExistingArgs(args) /= <<>> =>
          /\ pc = "exited" => exit_code = 0 /\ Len(clipboard) = 1 /\ Confirmed
          /\ MapBuilt => Headers(file_map) = ExistingArgs(args)
          /\ ContentsBuilt => MapBuilt /\ file_contents[Len(file_contents)].kind = "close"
    /\ clipboard /= <<>> =>
          /\ MapBuilt /\ ContentsBuilt
          /\ clipboard[1] = file_map \o <<[kind |-> "blank"]>> \o file_contents
    /\ Confirmed => clipboard /= <<>> /\ exit_code = 0

\* A run given a missing path and an existing one has ended with status 0
\* and its one clipboard write.
C5_Witness ==
    /\ pc = "exited" /\ exit_code = 0 /\ Len(clipboard) = 1
    /\ Len(ExistingArgs(args)) < Len(args)

(***************************************************************************)
(* C6                                                                      *)
(***************************************************************************)
IsBlock(k) == file_contents[k].kind = "file"

\* input i is to give file a content block: the file lies below the
\* directory input and neither a static fragment nor a glob of the input's
\* rules excludes it, or it is the bare file input, free of static
\* fragments and not below an earlier directory input
ToBeRendered(i, file) ==
    IF is_dir(valid_paths[i])
    THEN /\ Under(file, valid_paths[i])
         /\ ~HasStaticSegment(file)
         /\ ~GlobMatches(valid_paths[i], file)
    ELSE /\ file = valid_paths[i]
         /\ ~HasStaticSegment(file)
         /\ \A j \in 1..(i - 1) : ~Under(file, valid_paths[j])

\* C6: a file whose guessed media type holds image, binary or pdf is never
\* opened by get_file_contents; when it is to be rendered it has its block,
\* and each of its content blocks holds the placeholder [Binary file] and
\* nothing else.
C6_BinaryNeverRead ==
    \A f \in Files :
        is_binary(f) =>
            /\ f \notin opened
            /\ ContentsBuilt =>
                \A i \in 1..Len(valid_paths) : ToBeRendered(i, f) => HasBlock(i, f)
            /\ \A k \in 1..Len(file_contents) :
                (IsBlock(k) /\ file_contents[k].of = f)
                    => file_contents[k].content = << <<"[", "B", "i", "n", "a", "r", "y", " ", "f", "i", "l", "e", "]">> >>

\* The contents hold the block of the PNG, with the placeholder, next to
\* blocks of files that were opened.
C6_Witness ==
    /\ opened /= {}
    /\ \E k \in 1..Len(file_contents) :
        /\ IsBlock(k)
        /\ is_binary(file_contents[k].of)
        /\ file_contents[k].content = << <<"[", "B", "i", "n", "a", "r", "y", " ", "f", "i", "l", "e", "]">> >>

(***************************************************************************)
(* C7                                                                      *)
(***************************************************************************)
\* C7: a file that cannot be read does not abort the run: once
\* build_file_contents has run, its result ends with the closing marker and
\* the process has not died; every file that was opened and could not be
\* read has a block, and an empty one; and every file to be rendered has
\* its block, whichever files failed before it.
C7_ReadFailureNeverAborts ==
    ContentsBuilt =>
        /\ file_contents[Len(file_contents)].kind = "close"
        /\ ~(pc = "exited" /\ exit_code /= 0)
        /\ \A f \in opened \cap unreadable :
            /\ \E k \in 1..Len(file_contents) : IsBlock(k) /\ file_contents[k].of = f
            /\ \A k \in 1..Len(file_contents) :
                (IsBlock(k) /\ file_contents[k].of = f) => file_contents[k].content = <<>>
        /\ \A i \in 1..Len(valid_paths) : \A f \in Files :
            ToBeRendered(i, f) => HasBlock(i, f)

\* A file that could not be read has its empty block, a file after it its
\* text, and the closing marker ends the section.
C7_Witness ==
    /\ ContentsBuilt
    /\ file_contents[Len(file_contents)].kind = "close"
    /\ \E k, l \in 1..Len(file_contents) :
        /\ k < l /\ IsBlock(k) /\ IsBlock(l)
        /\ file_contents[k].of \in unreadable
        /\ file_contents[k].content = <<>>
        /\ file_contents[l].content /= <<>>

(***************************************************************************)
(* C8                                                                      *)
(***************************************************************************)
\* a rule of root's rules file excludes path, a rule written with a leading
\* separator matching the root-relative path only
AnchoredGlobMatches(root, path) ==
    LET pats == LoadedPatterns(root)
        rel  == SubSeq(path, Len(root) + 2, Len(path))
    IN  \E k \in 1..Len(pats) :
            IF Head(pats[k]) = SEP
            THEN fnmatch(rel, Tail(pats[k]))
            ELSE fnmatch(rel, pats[k]) \/ fnmatch(basename(path), pats[k])

\* C8: a rule written with a leading separator excludes only the entries
\* whose root-relative path matches it: a file that no rule excludes in
\* this sense, and no static fragment, has its content block.
C8_LeadingSeparatorAnchors ==
    ContentsBuilt =>
        \A i \in RuledInputs : \A f \in Files :
            ( /\ Under(f, valid_paths[i])
              /\ ~HasStaticSegment(f)
              /\ ~AnchoredGlobMatches(valid_paths[i], f) )
                => HasBlock(i, f)

(***************************************************************************)
(* C9                                                                      *)
(***************************************************************************)
\* the text of a line, without the fields that are no part of it
TextOf(line) ==
    IF line.kind = "entry" THEN [kind |-> "entry", indent |-> line.indent, name |-> line.name]
    ELSE IF line.kind = "file" THEN [kind |-> "file", rel |-> line.rel, content |-> line.content]
    ELSE IF line.kind = "header" THEN [kind |-> "header", text |-> line.text]
    ELSE line

RECURSIVE Section(_, _)
\* the lines written for input i, in order
Section(lines, i) ==
    IF lines = <<>> THEN <<>>
    ELSE IF Head(lines).kind \in {"header", "entry", "file"} /\ Head(lines).input = i
         THEN <<TextOf(Head(lines))>> \o Section(Tail(lines), i)
    ELSE Section(Tail(lines), i)

\* C9: what is written for each input path is what is written for it when
\* it is the only input.
C9_CachePerRoot ==
    /\ MapBuilt =>
        \A i \in 1..Len(valid_paths) :
            Section(file_map, i) = Section(build_file_map(<<valid_paths[i]>>), 1)
    /\ ContentsBuilt =>
        \A i \in 1..Len(valid_paths) :
            Section(file_contents, i)
                = Section(build_file_contents(<<valid_paths[i]>>).lines, 1)

(***************************************************************************)
(* C10                                                                     *)
(***************************************************************************)
\* the indentation of a header or entry line
IndentOf(line) == IF line.kind = "entry" THEN line.indent ELSE 0

\* the index of the entry line written for path by input i
LineOf(i, path) ==
    CHOOSE k \in 1..Len(file_map) :
        IsEntry(k) /\ file_map[k].input = i /\ file_map[k].of = path

\* C10: an entry listed inside a subdirectory of the input root comes after
\* the line of its parent directory and before the line of any later
\* sibling of the parent, and the nearest preceding line with a smaller
\* indentation is the line of the parent.
C10_DepthFirstListing ==
    \A k \in 1..Len(file_map) :
        ( /\ IsEntry(k)
          /\ is_dir(valid_paths[file_map[k].input])
          /\ Parent(file_map[k].of) /= valid_paths[file_map[k].input] )
            => LET i      == file_map[k].input
                   parent == Parent(file_map[k].of)
                   above  == {j \in 1..(k - 1) :
                                 /\ file_map[j].kind \in {"header", "entry"}
                                 /\ IndentOf(file_map[j]) < file_map[k].indent}
               IN  /\ HasMapEntry(i, parent)
                   /\ LineOf(i, parent) < k
                   /\ \A l \in 1..Len(file_map) :
                        ( /\ IsEntry(l) /\ file_map[l].input = i
                          /\ Parent(file_map[l].of) = Parent(parent)
                          /\ LineOf(i, parent) < l )
                            => k < l
                   /\ above /= {}
                   /\ (CHOOSE j \in above : \A h \in above : h <= j) = LineOf(i, parent)

====
